---- MODULE Spec2Model ----
(***************************************************************************)
(* DS3231 real-time-clock driver (esphome/components/ds3231/ds3231.cpp).   *)
(*                                                                         *)
(* The chip is a bank of 16 byte registers reached over a two-wire bus;    *)
(* the driver keeps a raw-byte mirror of five register groups (ds3231_)    *)
(* and reads its bit-fields through it.  Every driver entry point is one   *)
(* action; inside an action the code's statements are composed as          *)
(* functions on a machine record m = [chip, img, bus, sync, failed, epoch, *)
(* events].                                                                *)
(***************************************************************************)
EXTENDS Integers, Sequences, FiniteSets, TLC

VARIABLES
  chip,        \* the chip's registers, address 0x00..0x0F -> byte
  ds3231_,     \* the driver's in-memory register image (raw bytes per group)
  failed,      \* Component::mark_failed() has been called
  host_epoch,  \* the reference last given to RealTimeClock::synchronize_epoch_
  pc,          \* "new" after construction, "run" once setup() has returned
  ncalls,      \* entry points invoked since setup()
  nfail,       \* bus transactions that have failed so far
  call,        \* the last entry point invoked and its arguments
  bus,         \* the bus transactions of the last call, in order
  sync,        \* the epochs the last call passed to synchronize_epoch_
  pre,         \* chip, image, failed and host_epoch as they were before the last call
  prev,        \* the call before the last one: entry point, arguments, outcome
  raised       \* the alarm flags the chip raised after each transaction of the last call

vars ==
  <<chip, ds3231_, failed, host_epoch, pc, ncalls, nfail, call, bus, sync, pre, prev,
    raised>>

---------------------------------------------------------------------------
(* Bounds of the model *)

\* entry points invoked after setup() in one behaviour
MaxCalls == 2
\* set_alarm calls in one behaviour of the alarm specification
MaxAlarmCalls == 1
\* failed bus transactions in one behaviour of Spec
MaxFail == 1
\* failed bus transactions in one behaviour of the control-register specification
MaxCtrlFail == 2
\* alarm flags the chip raises during one call of the chip-event specification
MaxRaise == 1
\* entry points invoked after setup() in one behaviour of that specification
MaxChipCalls == 2
\* host times offered to write_time in the time specification
NumHostTimes == 60

---------------------------------------------------------------------------
(* Register addresses and alarm-type masks *)

DS3231_RTC_ADDRESS == 0
DS3231_ALARM_1_ADDRESS == 7
DS3231_ALARM_2_ADDRESS == 11
DS3231_CONTROL_ADDRESS == 14
DS3231_STATUS_ADDRESS == 15

DS3231_ALARM_TYPE_M1 == 1
DS3231_ALARM_TYPE_M2 == 2
DS3231_ALARM_TYPE_M3 == 4
DS3231_ALARM_TYPE_M4 == 8
DS3231_ALARM_TYPE_DAY_MODE == 16
DS3231_ALARM_TYPE_INTERUPT == 64
DS3231_ALARM_TYPE_ALARM_NUMBER == 128

\* DS3231SquareWaveMode: the four rates are the values of the 2-bit rate field,
\* ALARM_INTERUPT is the enumerator after them
SQUARE_WAVE_MODES == 0 .. 3
ALARM_INTERUPT == 4

\* DS3231AlarmNumber
ALARM_1 == 1
ALARM_2 == 2

Byte == 0 .. 255
Addr == 0 .. 15

---------------------------------------------------------------------------
(* Bit arithmetic on bytes *)

Pow2(n) == 2 ^ n

\* the width-bit field of byte b whose lowest bit is bit lo
Bits(b, lo, width) == (b \div Pow2(lo)) % Pow2(width)

\* byte b with that field replaced by the low width bits of v
WithBits(b, lo, width, v) ==
  b - Bits(b, lo, width) * Pow2(lo) + (v % Pow2(width)) * Pow2(lo)

\* a & mask for a one-bit mask
AndMask(a, mask) == IF (a \div mask) % 2 = 1 THEN mask ELSE 0

---------------------------------------------------------------------------
(* The register image: bit-fields laid over the raw bytes of each group.   *)
(* Each field is <<byte index (from 1), lowest bit, width>>.               *)

GroupLen == [rtc |-> 7, alrm_1 |-> 4, alrm_2 |-> 3, ctrl |-> 1, stat |-> 1]

Layout ==
  [rtc |->
     [second |-> <<1, 0, 4>>, second_10 |-> <<1, 4, 3>>,
      minute |-> <<2, 0, 4>>, minute_10 |-> <<2, 4, 3>>,
      hour |-> <<3, 0, 4>>, hour_10 |-> <<3, 4, 2>>,
      weekday |-> <<4, 0, 3>>,
      day |-> <<5, 0, 4>>, day_10 |-> <<5, 4, 2>>,
      month |-> <<6, 0, 4>>, month_10 |-> <<6, 4, 1>>,
      year |-> <<7, 0, 4>>, year_10 |-> <<7, 4, 4>>],
   alrm_1 |->
     [second |-> <<1, 0, 4>>, second_10 |-> <<1, 4, 3>>, m1 |-> <<1, 7, 1>>,
      minute |-> <<2, 0, 4>>, minute_10 |-> <<2, 4, 3>>, m2 |-> <<2, 7, 1>>,
      hour |-> <<3, 0, 4>>, hour_10 |-> <<3, 4, 2>>, m3 |-> <<3, 7, 1>>,
      day |-> <<4, 0, 4>>, day_10 |-> <<4, 4, 2>>, day_mode |-> <<4, 6, 1>>,
      m4 |-> <<4, 7, 1>>],
   alrm_2 |->
     [minute |-> <<1, 0, 4>>, minute_10 |-> <<1, 4, 3>>, m2 |-> <<1, 7, 1>>,
      hour |-> <<2, 0, 4>>, hour_10 |-> <<2, 4, 2>>, m3 |-> <<2, 7, 1>>,
      day |-> <<3, 0, 4>>, day_10 |-> <<3, 4, 2>>, day_mode |-> <<3, 6, 1>>,
      m4 |-> <<3, 7, 1>>],
   ctrl |->
     [alrm_1_int |-> <<1, 0, 1>>, alrm_2_int |-> <<1, 1, 1>>,
      int_ctrl |-> <<1, 2, 1>>, rs |-> <<1, 3, 2>>, conv_tmp |-> <<1, 5, 1>>,
      bat_sqw |-> <<1, 6, 1>>, osc_dis |-> <<1, 7, 1>>],
   stat |->
     [alrm_1_act |-> <<1, 0, 1>>, alrm_2_act |-> <<1, 1, 1>>,
      busy |-> <<1, 2, 1>>, en32khz |-> <<1, 3, 1>>, osc_stop |-> <<1, 7, 1>>]]

\* the fields declared as flags: assigning a value stores whether it is nonzero
FlagFields ==
  {"m1", "m2", "m3", "m4", "day_mode", "alrm_1_int", "alrm_2_int", "int_ctrl",
   "conv_tmp", "bat_sqw", "osc_dis", "alrm_1_act", "alrm_2_act", "busy",
   "en32khz", "osc_stop"}

\* ds3231_.<grp>.reg.<f> read out of a raw group
RawGet(raw, grp, f) ==
  LET p == Layout[grp][f] IN Bits(raw[p[1]], p[2], p[3])

\* ds3231_.<grp>.reg.<f> of an image
Get(img, grp, f) == RawGet(img[grp], grp, f)

\* ds3231_.<grp>.reg.<f> = v
Set(img, grp, f, v) ==
  LET p == Layout[grp][f]
      w == IF f \in FlagFields THEN (IF v = 0 THEN 0 ELSE 1) ELSE v
  IN [img EXCEPT ![grp][p[1]] = WithBits(@, p[2], p[3], w)]

---------------------------------------------------------------------------
(* The bus and the chip *)

\* the most bus transactions each entry point issues
MaxTx ==
  [setup |-> 5, read_time |-> 2, write_time |-> 3, set_alarm |-> 4,
   set_sqw_mode |-> 2, reset_alarm |-> 2]

\* the bus outcomes of the n transactions of a call: TRUE where the transaction
\* succeeds, with at most budget failures
Outcomes(n, budget) ==
  {o \in [1 .. n -> BOOLEAN] : Cardinality({k \in 1 .. n : ~o[k]}) <= budget}

\* every transaction of the call succeeds
AllOk == [k \in 1 .. MaxTx.setup |-> TRUE]

\* what the chip keeps of a byte written to register a holding old: the alarm and
\* oscillator-stopped flags of the status register can only be cleared by a
\* write (a flag written as 1 is left as it is), its busy flag is read-only and
\* its bits 4..6 read as zero; every other register stores the byte
ChipStore(a, old, new) ==
  IF a = DS3231_STATUS_ADDRESS
    THEN Bits(old, 0, 1) * Bits(new, 0, 1)
         + 2 * (Bits(old, 1, 1) * Bits(new, 1, 1))
         + 4 * Bits(old, 2, 1)
         + 8 * Bits(new, 3, 1)
         + 128 * (Bits(old, 7, 1) * Bits(new, 7, 1))
    ELSE new

\* the alarm active flags, which the chip sets by itself when an alarm matches
AlarmFlags == {"alrm_1_act", "alrm_2_act"}

\* the chip raises no flag during the call
NoEvents == [k \in 1 .. MaxTx.setup |-> {}]

\* the flags the chip raises after each of the n transactions of a call, at
\* most budget of them in all
Events(n, budget) ==
  {e \in [1 .. MaxTx.setup -> SUBSET AlarmFlags] :
     /\ \A k \in 1 .. MaxTx.setup : k > n => e[k] = {}
     /\ Cardinality({<<k, f>> \in (1 .. n) \X AlarmFlags : f \in e[k]}) <= budget}

\* the chip's registers once it has raised those alarm flags
ChipRaise(c, flags) ==
  IF flags = {} THEN c
  ELSE [c EXCEPT ![DS3231_STATUS_ADDRESS] =
          WithBits(WithBits(@, 0, 1, IF "alrm_1_act" \in flags THEN 1 ELSE Bits(@, 0, 1)),
                   1, 1, IF "alrm_2_act" \in flags THEN 1 ELSE Bits(@, 1, 1))]

\* the chip after the transaction the call issues next: it raises the flags the
\* environment has scheduled behind that transaction
AfterTx(m, c) == ChipRaise(c, m.events[Len(m.bus) + 1])

\* the outcome the bus gives to the next transaction of the call
NextOk(m, oks) == oks[Len(m.bus) + 1]

\* whether the last transaction succeeded (the bool the access procedure returns)
LastOk(m) == m.bus[Len(m.bus)].ok

\* I2CDevice::read_bytes(addr, ds3231_.<grp>.raw, len): one transaction; a failed
\* read leaves the buffer as it was
read_bytes(m, addr, grp, len, oks) ==
  IF NextOk(m, oks)
    THEN LET data == [i \in 1 .. len |-> m.chip[addr + i - 1]]
         IN [m EXCEPT !.img[grp] = data,
                      !.chip = AfterTx(m, @),
                      !.bus = Append(@, [kind |-> "r", addr |-> addr, len |-> len,
                                         ok |-> TRUE, data |-> data])]
    ELSE [m EXCEPT !.chip = AfterTx(m, @),
                   !.bus = Append(@, [kind |-> "r", addr |-> addr, len |-> len,
                                      ok |-> FALSE, data |-> << >>])]

\* I2CDevice::write_bytes(addr, ds3231_.<grp>.raw, len): one transaction; a failed
\* write leaves the chip as it was
write_bytes(m, addr, grp, len, oks) ==
  LET data == m.img[grp] IN
  IF NextOk(m, oks)
    THEN [m EXCEPT !.chip = AfterTx(m, [a \in Addr |->
                               IF a >= addr /\ a < addr + len
                                 THEN ChipStore(a, m.chip[a], data[a - addr + 1])
                                 ELSE m.chip[a]]),
                   !.bus = Append(@, [kind |-> "w", addr |-> addr, len |-> len,
                                      ok |-> TRUE, data |-> data])]
    ELSE [m EXCEPT !.chip = AfterTx(m, @),
                   !.bus = Append(@, [kind |-> "w", addr |-> addr, len |-> len,
                                      ok |-> FALSE, data |-> data])]

---------------------------------------------------------------------------
(* The six register-access procedures *)

read_rtc_(m, oks) == read_bytes(m, DS3231_RTC_ADDRESS, "rtc", GroupLen.rtc, oks)

write_rtc_(m, oks) == write_bytes(m, DS3231_RTC_ADDRESS, "rtc", GroupLen.rtc, oks)

read_alrm_1_(m, oks) ==
  read_bytes(m, DS3231_ALARM_1_ADDRESS, "alrm_1", GroupLen.alrm_1, oks)

write_alrm_1_(m, oks) ==
  write_bytes(m, DS3231_ALARM_1_ADDRESS, "alrm_1", GroupLen.alrm_1, oks)

\* the alarm-2 image is read from, and written to, DS3231_ALARM_1_ADDRESS
read_alrm_2_(m, oks) ==
  read_bytes(m, DS3231_ALARM_1_ADDRESS, "alrm_2", GroupLen.alrm_2, oks)

write_alrm_2_(m, oks) ==
  write_bytes(m, DS3231_ALARM_1_ADDRESS, "alrm_2", GroupLen.alrm_2, oks)

read_ctrl_(m, oks) ==
  read_bytes(m, DS3231_CONTROL_ADDRESS, "ctrl", GroupLen.ctrl, oks)

write_ctrl_(m, oks) ==
  write_bytes(m, DS3231_CONTROL_ADDRESS, "ctrl", GroupLen.ctrl, oks)

read_stat_(m, oks) ==
  read_bytes(m, DS3231_STATUS_ADDRESS, "stat", GroupLen.stat, oks)

write_stat_(m, oks) ==
  write_bytes(m, DS3231_STATUS_ADDRESS, "stat", GroupLen.stat, oks)

\* ds3231_.<grp>.reg.<f> = v on the machine record
Assign(m, grp, f, v) == [m EXCEPT !.img = Set(@, grp, f, v)]

---------------------------------------------------------------------------
(* Calendar time (time::ESPTime) and the host clock *)

\* ESPTime::is_valid(): every field of the calendar time is in its range
is_valid(t) ==
  /\ t.second \in 0 .. 59
  /\ t.minute \in 0 .. 59
  /\ t.hour \in 0 .. 23
  /\ t.day_of_month \in 1 .. 31
  /\ t.month \in 1 .. 12

IsLeapYear(y) == y % 4 = 0 /\ (y % 100 # 0 \/ y % 400 = 0)

DaysInMonth(mo, y) ==
  IF mo = 2 THEN (IF IsLeapYear(y) THEN 29 ELSE 28)
  ELSE IF mo \in {4, 6, 9, 11} THEN 30 ELSE 31

\* leap years before year y
LeapsBefore(y) == ((y - 1) \div 4) - ((y - 1) \div 100) + ((y - 1) \div 400)

RECURSIVE DaysBeforeMonth(_, _)
DaysBeforeMonth(mo, y) ==
  IF mo <= 1 THEN 0 ELSE DaysInMonth(mo - 1, y) + DaysBeforeMonth(mo - 1, y)

\* ESPTime::recalc_timestamp_utc(false): the epoch of the calendar fields, day of
\* year and day of week ignored; kept as <<days since 1970-01-01, second of the day>>
recalc_timestamp_utc(t) ==
  << 365 * (t.year - 1970) + (LeapsBefore(t.year) - LeapsBefore(1970))
       + DaysBeforeMonth(t.month, t.year) + (t.day_of_month - 1),
     (t.hour * 60 + t.minute) * 60 + t.second >>

\* RealTimeClock::synchronize_epoch_(epoch)
synchronize_epoch_(m, epoch) ==
  [m EXCEPT !.epoch = epoch, !.sync = Append(@, epoch)]

\* Component::mark_failed()
mark_failed(m) == [m EXCEPT !.failed = TRUE]

---------------------------------------------------------------------------
(* The entry points, as functions on the machine record *)

\* the calendar time read_time builds from the time image
DecodeRtc(img) ==
  [second |-> (Get(img, "rtc", "second") + 10 * Get(img, "rtc", "second_10")) % 256,
   minute |-> (Get(img, "rtc", "minute") + 10 * Get(img, "rtc", "minute_10")) % 256,
   hour |-> (Get(img, "rtc", "hour") + 10 * Get(img, "rtc", "hour_10")) % 256,
   day_of_week |-> Get(img, "rtc", "weekday"),
   day_of_month |-> (Get(img, "rtc", "day") + 10 * Get(img, "rtc", "day_10")) % 256,
   month |-> (Get(img, "rtc", "month") + 10 * Get(img, "rtc", "month_10")) % 256,
   year |-> (Get(img, "rtc", "year") + 10 * Get(img, "rtc", "year_10") + 2000) % 65536]

\* read_time without the oscillator-stopped guard
read_time_NoOscGuard(m, oks) ==
  LET m1 == read_stat_(m, oks) IN
  IF ~LastOk(m1) THEN m1
  ELSE LET m2 == read_rtc_(m1, oks) IN
       IF ~LastOk(m2) THEN m2
       ELSE LET rtc_time == DecodeRtc(m2.img) IN
            IF ~is_valid(rtc_time) THEN m2
            ELSE synchronize_epoch_(m2, recalc_timestamp_utc(rtc_time))

\* read_time without the validity guard
read_time_NoValidGuard(m, oks) ==
  LET m1 == read_stat_(m, oks) IN
  IF ~LastOk(m1) THEN m1
  ELSE IF Get(m1.img, "stat", "osc_stop") # 0 THEN m1
  ELSE LET m2 == read_rtc_(m1, oks) IN
       IF ~LastOk(m2) THEN m2
       ELSE synchronize_epoch_(m2, recalc_timestamp_utc(DecodeRtc(m2.img)))

\* read_time treating an abandoned cycle as fatal
read_time_MarkFailed(m, oks) ==
  LET m1 == read_stat_(m, oks) IN
  IF ~LastOk(m1) THEN mark_failed(m1)
  ELSE IF Get(m1.img, "stat", "osc_stop") # 0 THEN mark_failed(m1)
  ELSE LET m2 == read_rtc_(m1, oks) IN
       IF ~LastOk(m2) THEN mark_failed(m2)
       ELSE LET rtc_time == DecodeRtc(m2.img) IN
            IF ~is_valid(rtc_time) THEN mark_failed(m2)
            ELSE synchronize_epoch_(m2, recalc_timestamp_utc(rtc_time))

read_time(m, oks) ==
  LET m1 == read_stat_(m, oks) IN
  IF ~LastOk(m1) THEN m1
  ELSE IF Get(m1.img, "stat", "osc_stop") # 0 THEN m1
  ELSE LET m2 == read_rtc_(m1, oks) IN
       IF ~LastOk(m2) THEN m2
       ELSE LET rtc_time == DecodeRtc(m2.img) IN
            IF ~is_valid(rtc_time) THEN m2
            ELSE synchronize_epoch_(m2, recalc_timestamp_utc(rtc_time))

\* EncodeRtc storing the year's tens digit without reducing the units away
EncodeRtc_YearTens(m, now) ==
  LET a1 == Assign(m, "rtc", "second", now.second % 10)
      a2 == Assign(a1, "rtc", "second_10", now.second \div 10)
      a3 == Assign(a2, "rtc", "minute", now.minute % 10)
      a4 == Assign(a3, "rtc", "minute_10", now.minute \div 10)
      a5 == Assign(a4, "rtc", "hour", now.hour % 10)
      a6 == Assign(a5, "rtc", "hour_10", now.hour \div 10)
      a7 == Assign(a6, "rtc", "weekday", now.day_of_week)
      a8 == Assign(a7, "rtc", "day", now.day_of_month % 10)
      a9 == Assign(a8, "rtc", "day_10", now.day_of_month \div 10)
      a10 == Assign(a9, "rtc", "month", now.month % 10)
      a11 == Assign(a10, "rtc", "month_10", now.month \div 10)
      a12 == Assign(a11, "rtc", "year", (now.year - 2000) % 10)
  IN Assign(a12, "rtc", "year_10", (now.year - 2000) % 100)

\* the time image write_time builds from the host time
EncodeRtc(m, now) ==
  LET a1 == Assign(m, "rtc", "second", now.second % 10)
      a2 == Assign(a1, "rtc", "second_10", now.second \div 10)
      a3 == Assign(a2, "rtc", "minute", now.minute % 10)
      a4 == Assign(a3, "rtc", "minute_10", now.minute \div 10)
      a5 == Assign(a4, "rtc", "hour", now.hour % 10)
      a6 == Assign(a5, "rtc", "hour_10", now.hour \div 10)
      a7 == Assign(a6, "rtc", "weekday", now.day_of_week)
      a8 == Assign(a7, "rtc", "day", now.day_of_month % 10)
      a9 == Assign(a8, "rtc", "day_10", now.day_of_month \div 10)
      a10 == Assign(a9, "rtc", "month", now.month % 10)
      a11 == Assign(a10, "rtc", "month_10", now.month \div 10)
      a12 == Assign(a11, "rtc", "year", (now.year - 2000) % 10)
  IN Assign(a12, "rtc", "year_10", ((now.year - 2000) \div 10) % 10)

\* write_time without the host-validity guard
write_time_NoValidGuard(m, now, oks) ==
  LET m1 == read_stat_(m, oks)
      m2 == IF Get(m1.img, "stat", "osc_stop") # 0
              THEN write_stat_(Assign(m1, "stat", "osc_stop", 0), oks)
              ELSE m1
  IN write_rtc_(EncodeRtc(m2, now), oks)

\* write_time that leaves the oscillator-stopped flag as it is
write_time_NoRestart(m, now, oks) ==
  IF ~is_valid(now) THEN m
  ELSE write_rtc_(EncodeRtc(read_stat_(m, oks), now), oks)

write_time(m, now, oks) ==
  IF ~is_valid(now) THEN m
  ELSE LET m1 == read_stat_(m, oks)
           m2 == IF Get(m1.img, "stat", "osc_stop") # 0
                   THEN write_stat_(Assign(m1, "stat", "osc_stop", 0), oks)
                   ELSE m1
       IN write_rtc_(EncodeRtc(m2, now), oks)

\* EncodeAlarm1 with the hour's digits stored in each other's place
EncodeAlarm1_HourSwapped(m, alarm_type, second, minute, hour, day) ==
  LET a1 == Assign(m, "alrm_1", "second", second % 10)
      a2 == Assign(a1, "alrm_1", "second_10", second \div 10)
      a3 == Assign(a2, "alrm_1", "m1", AndMask(alarm_type, DS3231_ALARM_TYPE_M1))
      a4 == Assign(a3, "alrm_1", "minute", minute % 10)
      a5 == Assign(a4, "alrm_1", "minute_10", minute \div 10)
      a6 == Assign(a5, "alrm_1", "m2", AndMask(alarm_type, DS3231_ALARM_TYPE_M2))
      a7 == Assign(a6, "alrm_1", "hour", hour \div 10)
      a8 == Assign(a7, "alrm_1", "hour_10", hour % 10)
      a9 == Assign(a8, "alrm_1", "m3", AndMask(alarm_type, DS3231_ALARM_TYPE_M3))
      a10 == Assign(a9, "alrm_1", "day", day % 10)
      a11 == Assign(a10, "alrm_1", "day_10", day \div 10)
      a12 == Assign(a11, "alrm_1", "day_mode",
                    AndMask(alarm_type, DS3231_ALARM_TYPE_DAY_MODE))
  IN Assign(a12, "alrm_1", "m4", AndMask(alarm_type, DS3231_ALARM_TYPE_M4))

\* the alarm-1 image set_alarm builds from its arguments
EncodeAlarm1(m, alarm_type, second, minute, hour, day) ==
  LET a1 == Assign(m, "alrm_1", "second", second % 10)
      a2 == Assign(a1, "alrm_1", "second_10", second \div 10)
      a3 == Assign(a2, "alrm_1", "m1", AndMask(alarm_type, DS3231_ALARM_TYPE_M1))
      a4 == Assign(a3, "alrm_1", "minute", minute % 10)
      a5 == Assign(a4, "alrm_1", "minute_10", minute \div 10)
      a6 == Assign(a5, "alrm_1", "m2", AndMask(alarm_type, DS3231_ALARM_TYPE_M2))
      a7 == Assign(a6, "alrm_1", "hour", hour % 10)
      a8 == Assign(a7, "alrm_1", "hour_10", hour \div 10)
      a9 == Assign(a8, "alrm_1", "m3", AndMask(alarm_type, DS3231_ALARM_TYPE_M3))
      a10 == Assign(a9, "alrm_1", "day", day % 10)
      a11 == Assign(a10, "alrm_1", "day_10", day \div 10)
      a12 == Assign(a11, "alrm_1", "day_mode",
                    AndMask(alarm_type, DS3231_ALARM_TYPE_DAY_MODE))
  IN Assign(a12, "alrm_1", "m4", AndMask(alarm_type, DS3231_ALARM_TYPE_M4))

\* the alarm-2 image set_alarm builds from its arguments
EncodeAlarm2(m, alarm_type, minute, hour, day) ==
  LET a1 == Assign(m, "alrm_2", "minute", minute % 10)
      a2 == Assign(a1, "alrm_2", "minute_10", minute \div 10)
      a3 == Assign(a2, "alrm_2", "m2", AndMask(alarm_type, DS3231_ALARM_TYPE_M2))
      a4 == Assign(a3, "alrm_2", "hour", hour % 10)
      a5 == Assign(a4, "alrm_2", "hour_10", hour \div 10)
      a6 == Assign(a5, "alrm_2", "m3", AndMask(alarm_type, DS3231_ALARM_TYPE_M3))
      a7 == Assign(a6, "alrm_2", "day", day % 10)
      a8 == Assign(a7, "alrm_2", "day_10", day \div 10)
      a9 == Assign(a8, "alrm_2", "day_mode",
                   AndMask(alarm_type, DS3231_ALARM_TYPE_DAY_MODE))
  IN Assign(a9, "alrm_2", "m4", AndMask(alarm_type, DS3231_ALARM_TYPE_M4))

\* bool(alarm_type & DS3231_ALARM_TYPE_INTERUPT), as 0 or 1
WantInterrupt(alarm_type) ==
  IF AndMask(alarm_type, DS3231_ALARM_TYPE_INTERUPT) # 0 THEN 1 ELSE 0

\* set_alarm storing the seconds argument in the minute fields of alarm 2
set_alarm_Alarm2Seconds(m, alarm_type, second, minute, hour, day, oks) ==
  LET m1 == read_ctrl_(m, oks) IN
  IF AndMask(alarm_type, DS3231_ALARM_TYPE_ALARM_NUMBER) = 0
    THEN LET m2 == read_alrm_1_(m1, oks)
             m3 == write_alrm_1_(EncodeAlarm1(m2, alarm_type, second, minute, hour, day), oks)
         IN IF Get(m3.img, "ctrl", "alrm_1_int") # WantInterrupt(alarm_type)
              THEN write_ctrl_(Assign(m3, "ctrl", "alrm_1_int", WantInterrupt(alarm_type)), oks)
              ELSE m3
    ELSE LET m2 == read_alrm_2_(m1, oks)
             m3 == write_alrm_2_(EncodeAlarm2(m2, alarm_type, second, hour, day), oks)
         IN IF Get(m3.img, "ctrl", "alrm_2_int") # WantInterrupt(alarm_type)
              THEN write_ctrl_(Assign(m3, "ctrl", "alrm_2_int", WantInterrupt(alarm_type)), oks)
              ELSE m3

set_alarm(m, alarm_type, second, minute, hour, day, oks) ==
  LET m1 == read_ctrl_(m, oks) IN
  IF AndMask(alarm_type, DS3231_ALARM_TYPE_ALARM_NUMBER) = 0
    THEN LET m2 == read_alrm_1_(m1, oks)
             m3 == write_alrm_1_(EncodeAlarm1(m2, alarm_type, second, minute, hour, day), oks)
         IN IF Get(m3.img, "ctrl", "alrm_1_int") # WantInterrupt(alarm_type)
              THEN write_ctrl_(Assign(m3, "ctrl", "alrm_1_int", WantInterrupt(alarm_type)), oks)
              ELSE m3
    ELSE LET m2 == read_alrm_2_(m1, oks)
             m3 == write_alrm_2_(EncodeAlarm2(m2, alarm_type, minute, hour, day), oks)
         IN IF Get(m3.img, "ctrl", "alrm_2_int") # WantInterrupt(alarm_type)
              THEN write_ctrl_(Assign(m3, "ctrl", "alrm_2_int", WantInterrupt(alarm_type)), oks)
              ELSE m3

set_sqw_mode(m, mode, oks) ==
  LET m1 == read_ctrl_(m, oks) IN
  IF mode = ALARM_INTERUPT /\ Get(m1.img, "ctrl", "int_ctrl") = 0
    THEN write_ctrl_(Assign(m1, "ctrl", "int_ctrl", 1), oks)
  ELSE IF Get(m1.img, "ctrl", "int_ctrl") # 0 \/ Get(m1.img, "ctrl", "rs") # mode
    THEN write_ctrl_(Assign(Assign(m1, "ctrl", "int_ctrl", 0), "ctrl", "rs", mode), oks)
  ELSE m1

\* reset_alarm writing status only when it cleared a flag
reset_alarm_WriteIfChanged(m, alarm_number, oks) ==
  LET m1 == read_stat_(m, oks) IN
  IF alarm_number = ALARM_1 /\ Get(m1.img, "stat", "alrm_1_act") # 0
    THEN write_stat_(Assign(m1, "stat", "alrm_1_act", 0), oks)
  ELSE IF alarm_number = ALARM_2 /\ Get(m1.img, "stat", "alrm_2_act") # 0
    THEN write_stat_(Assign(m1, "stat", "alrm_2_act", 0), oks)
  ELSE m1

\* reset_alarm clearing both active flags
reset_alarm_ClearsBoth(m, alarm_number, oks) ==
  LET m1 == read_stat_(m, oks)
  IN write_stat_(Assign(Assign(m1, "stat", "alrm_1_act", 0), "stat", "alrm_2_act", 0),
                 oks)

reset_alarm(m, alarm_number, oks) ==
  LET m1 == read_stat_(m, oks)
      m2 == IF alarm_number = ALARM_1 /\ Get(m1.img, "stat", "alrm_1_act") # 0
              THEN Assign(m1, "stat", "alrm_1_act", 0)
            ELSE IF alarm_number = ALARM_2 /\ Get(m1.img, "stat", "alrm_2_act") # 0
              THEN Assign(m1, "stat", "alrm_2_act", 0)
            ELSE m1
  IN write_stat_(m2, oks)

\* one "if (!read) mark_failed()" statement of setup
SetupStep(m) == IF LastOk(m) THEN m ELSE mark_failed(m)

setup(m, oks) ==
  LET m1 == SetupStep(read_rtc_(m, oks))
      m2 == SetupStep(read_alrm_1_(m1, oks))
      m3 == SetupStep(read_alrm_2_(m2, oks))
      m4 == SetupStep(read_ctrl_(m3, oks))
  IN SetupStep(read_stat_(m4, oks))

\* PollingComponent::update(): the periodic hook
update(m, oks) == read_time(m, oks)

---------------------------------------------------------------------------
(* The chip's contents and the inputs the environment offers *)

\* a value in the chip's packed BCD format
Bcd(v) == (v \div 10) * 16 + (v % 10)

Time(s, mi, h, wd, d, mo, y) ==
  [second |-> s, minute |-> mi, hour |-> h, day_of_week |-> wd,
   day_of_month |-> d, month |-> mo, year |-> y]

\* the time register group holding calendar time t
ChipRtc(t) ==
  << Bcd(t.second), Bcd(t.minute), Bcd(t.hour), t.day_of_week,
     Bcd(t.day_of_month), Bcd(t.month), Bcd(t.year - 2000) >>

\* the chip holding the given register groups
ChipOf(rtc, a1, a2, ctrl, stat) ==
  [a \in Addr |->
     IF a < DS3231_ALARM_1_ADDRESS THEN rtc[a + 1]
     ELSE IF a < DS3231_ALARM_2_ADDRESS THEN a1[a - DS3231_ALARM_1_ADDRESS + 1]
     ELSE IF a < DS3231_CONTROL_ADDRESS THEN a2[a - DS3231_ALARM_2_ADDRESS + 1]
     ELSE IF a = DS3231_CONTROL_ADDRESS THEN ctrl
     ELSE stat]

\* the register image with every byte equal to fill (the image is not
\* initialised by the constructor)
ImageOf(fill) ==
  [rtc |-> [i \in 1 .. GroupLen.rtc |-> fill],
   alrm_1 |-> [i \in 1 .. GroupLen.alrm_1 |-> fill],
   alrm_2 |-> [i \in 1 .. GroupLen.alrm_2 |-> fill],
   ctrl |-> [i \in 1 .. GroupLen.ctrl |-> fill],
   stat |-> [i \in 1 .. GroupLen.stat |-> fill]]

ValidTime == Time(30, 15, 8, 1, 1, 1, 2024)

\* time register contents: one valid time, and times with one field out of range
RtcInits ==
  { ChipRtc(ValidTime),
    ChipRtc(Time(30, 15, 8, 1, 1, 0, 2024)),
    ChipRtc(Time(30, 15, 8, 1, 1, 13, 2024)),
    ChipRtc(Time(30, 15, 8, 1, 0, 1, 2024)),
    ChipRtc(Time(30, 15, 8, 1, 32, 1, 2024)),
    ChipRtc(Time(30, 15, 24, 1, 1, 1, 2024)),
    ChipRtc(Time(30, 60, 8, 1, 1, 1, 2024)),
    ChipRtc(Time(60, 15, 8, 1, 1, 1, 2024)),
    <<255, 255, 255, 255, 255, 255, 255>> }

\* alarm register contents before the driver configures them
Alarm1Init == <<Bcd(45) + 128, Bcd(59), Bcd(23) + 128, Bcd(28) + 64>>
Alarm2Init == <<Bcd(7), Bcd(12) + 128, Bcd(5) + 192>>

\* control: power-on value (INTCN, RS=3); both alarm interrupts enabled with
\* BBSQW and CONV; square wave at rate 1 with alarm 1 enabled
CtrlInits == {28, 103, 9}
\* status: power-on value (OSF, EN32kHz); both alarm flags raised; all clear
StatInits == {136, 3, 0}
\* the bytes the uninitialised image may hold
ImageFills == {0, 255}

---------------------------------------------------------------------------
(* State machine *)

Machine ==
  [chip |-> chip, img |-> ds3231_, bus |-> << >>, sync |-> << >>,
   failed |-> failed, epoch |-> host_epoch, events |-> NoEvents]

\* the same, with the chip raising the flags of ev during the call
MachineWith(ev) == [Machine EXCEPT !.events = ev]

Failures(log) == Cardinality({k \in 1 .. Len(log) : ~log[k].ok})

\* the addresses written by the transactions of a log, in order
WriteAddrs(log) ==
  LET W == SelectSeq(log, LAMBDA x : x.kind = "w")
  IN [k \in 1 .. Len(W) |-> W[k].addr]

InitWith(chips, fills) ==
  /\ chip \in chips
  /\ ds3231_ \in {ImageOf(f) : f \in fills}
  /\ failed = FALSE
  /\ host_epoch = <<0, 0>>
  /\ pc = "new"
  /\ ncalls = 0
  /\ nfail = 0
  /\ call = [op |-> "none", arg |-> << >>]
  /\ bus = << >>
  /\ sync = << >>
  /\ pre = [chip |-> chip, img |-> ds3231_, failed |-> FALSE, epoch |-> <<0, 0>>]
  /\ prev = [op |-> "none", arg |-> << >>, ok |-> TRUE, writes |-> << >>]
  /\ raised = NoEvents

\* the entry point op, called with arg, ran from the current state to m under
\* the bus outcomes oks (outcomes beyond the transactions issued are not drawn)
Do(op, arg, m, oks) ==
  /\ \A k \in DOMAIN oks : k > Len(m.bus) => oks[k]
  /\ chip' = m.chip
  /\ ds3231_' = m.img
  /\ failed' = m.failed
  /\ host_epoch' = m.epoch
  /\ bus' = m.bus
  /\ sync' = m.sync
  /\ nfail' = nfail + Failures(m.bus)
  /\ call' = [op |-> op, arg |-> arg]
  /\ pre' = [chip |-> chip, img |-> ds3231_, failed |-> failed, epoch |-> host_epoch]
  /\ prev' = [op |-> call.op, arg |-> call.arg,
              ok |-> Failures(bus) = 0, writes |-> WriteAddrs(bus)]
  /\ \A k \in DOMAIN m.events : k > Len(m.bus) => m.events[k] = {}
  /\ raised' = m.events

Setup(oks) ==
  /\ pc = "new"
  /\ pc' = "run"
  /\ ncalls' = ncalls
  /\ Do("setup", << >>, setup(Machine, oks), oks)

Called == pc' = "run" /\ ncalls' = ncalls + 1

\* setup has run and fewer than limit entry points have been invoked since
Ready(limit) == pc = "run" /\ ncalls < limit

Update(oks) ==
  /\ Called
  /\ Do("read_time", << >>, update(Machine, oks), oks)

WriteTime(now, oks) ==
  /\ Called
  /\ Do("write_time", now, write_time(Machine, now, oks), oks)

SetAlarm(a, oks) ==
  /\ Called
  /\ Do("set_alarm", a,
        set_alarm(Machine, a.alarm_type, a.second, a.minute, a.hour, a.day, oks), oks)

SetSqwMode(mode, oks) ==
  /\ Called
  /\ Do("set_sqw_mode", mode, set_sqw_mode(Machine, mode, oks), oks)

ResetAlarm(alarm_number, oks) ==
  /\ Called
  /\ Do("reset_alarm", alarm_number, reset_alarm(Machine, alarm_number, oks), oks)

\* write_time while the chip raises the alarm flags of ev
WriteTimeAsync(now, ev, oks) ==
  /\ Called
  /\ Do("write_time", now, write_time(MachineWith(ev), now, oks), oks)

\* reset_alarm while the chip raises the alarm flags of ev
ResetAlarmAsync(alarm_number, ev, oks) ==
  /\ Called
  /\ Do("reset_alarm", alarm_number,
        reset_alarm(MachineWith(ev), alarm_number, oks), oks)

AlarmArg(ty, s, mi, h, d) ==
  [alarm_type |-> ty, second |-> s, minute |-> mi, hour |-> h, day |-> d]

Modes == SQUARE_WAVE_MODES \cup {ALARM_INTERUPT}

(* Spec: every entry point, with bus failures, on a few inputs *)

HostTimes ==
  { Time(59, 59, 23, 7, 31, 12, 2099),
    Time(0, 0, 0, 0, 0, 0, 0) }

AlarmArgs ==
  { AlarmArg(78, 30, 15, 8, 1), AlarmArg(145, 7, 40, 19, 20) }

Init ==
  InitWith({ChipOf(ChipRtc(ValidTime), Alarm1Init, Alarm2Init, c, s) :
              c \in {28, 103}, s \in StatInits},
           {0})

Next ==
  \/ \E oks \in Outcomes(MaxTx.setup, MaxFail - nfail) : Setup(oks)
  \/ /\ Ready(MaxCalls)
     /\ \E oks \in Outcomes(MaxTx.read_time, MaxFail - nfail) : Update(oks)
  \/ /\ Ready(MaxCalls)
     /\ \E now \in HostTimes, oks \in Outcomes(MaxTx.write_time, MaxFail - nfail) :
          WriteTime(now, oks)
  \/ /\ Ready(MaxCalls)
     /\ \E a \in AlarmArgs, oks \in Outcomes(MaxTx.set_alarm, MaxFail - nfail) :
          SetAlarm(a, oks)
  \/ /\ Ready(MaxCalls)
     /\ \E mode \in Modes, oks \in Outcomes(MaxTx.set_sqw_mode, MaxFail - nfail) :
          SetSqwMode(mode, oks)
  \/ /\ Ready(MaxCalls)
     /\ \E n \in {ALARM_1, ALARM_2},
           oks \in Outcomes(MaxTx.reset_alarm, MaxFail - nfail) :
          ResetAlarm(n, oks)

Spec == Init /\ [][Next]_vars

(* SpecTime: the periodic update and write_time, with bus failures, from every  *)
(* time register content of RtcInits                                            *)

InitTime ==
  InitWith({ChipOf(r, Alarm1Init, Alarm2Init, 28, s) :
              r \in RtcInits, s \in {136, 0}},
           ImageFills)

NextTime ==
  \/ \E oks \in Outcomes(MaxTx.setup, MaxFail - nfail) : Setup(oks)
  \/ /\ Ready(MaxCalls)
     /\ \E oks \in Outcomes(MaxTx.read_time, MaxFail - nfail) : Update(oks)
  \/ /\ Ready(MaxCalls)
     /\ \E now \in HostTimes, oks \in Outcomes(MaxTx.write_time, MaxFail - nfail) :
          WriteTime(now, oks)

SpecTime == InitTime /\ [][NextTime]_vars

(* SpecRoundTrip: write_time and the periodic update on a working bus, over     *)
(* host times that take every value of every calendar field                     *)

HostTimeAt(i) ==
  Time(i % 60, (7 * i + 3) % 60, i % 24, i % 8, (i % 31) + 1, (i % 12) + 1,
       2000 + ((17 * i) % 100))

ManyHostTimes ==
  {HostTimeAt(i) : i \in 0 .. NumHostTimes - 1}
    \cup {Time(0, 0, 0, 1, 1, 1, 2100), Time(0, 0, 0, 0, 0, 0, 0)}

InitRoundTrip ==
  InitWith({ChipOf(ChipRtc(ValidTime), Alarm1Init, Alarm2Init, 28, s) : s \in {136, 0}},
           {0})

NextRoundTrip ==
  \/ Setup(AllOk)
  \/ Ready(MaxCalls) /\ Update(AllOk)
  \/ Ready(MaxCalls) /\ \E now \in ManyHostTimes : WriteTime(now, AllOk)

SpecRoundTrip == InitRoundTrip /\ [][NextRoundTrip]_vars

(* SpecSqw: set_sqw_mode from every control register value *)

InitSqw ==
  InitWith({ChipOf(ChipRtc(ValidTime), Alarm1Init, Alarm2Init, c, 0) : c \in Byte},
           {0})

NextSqw ==
  \/ \E oks \in Outcomes(MaxTx.setup, MaxFail - nfail) : Setup(oks)
  \/ /\ Ready(MaxCalls)
     /\ \E mode \in Modes, oks \in Outcomes(MaxTx.set_sqw_mode, MaxFail - nfail) :
          SetSqwMode(mode, oks)

SpecSqw == InitSqw /\ [][NextSqw]_vars

(* SpecAlarm: set_alarm on a working bus, for every alarm type *)

AlarmTimes == { <<30, 15, 8, 1>>, <<59, 59, 23, 31>>, <<0, 9, 10, 20>> }

ManyAlarmArgs ==
  {AlarmArg(ty, t[1], t[2], t[3], t[4]) :
     ty \in {x \in Byte : Bits(x, 5, 1) = 0}, t \in AlarmTimes}

InitAlarm ==
  InitWith({ChipOf(ChipRtc(ValidTime), Alarm1Init, Alarm2Init, c, 0) : c \in CtrlInits},
           {0})

NextAlarm ==
  \/ Setup(AllOk)
  \/ Ready(MaxAlarmCalls) /\ \E a \in ManyAlarmArgs : SetAlarm(a, AllOk)

SpecAlarm == InitAlarm /\ [][NextAlarm]_vars

---------------------------------------------------------------------------
(* Properties *)

\* every bus transaction of the last call succeeded
TxOk == \A k \in 1 .. Len(bus) : bus[k].ok

\* the transactions of the last call of one kind at one address
TxAt(kind, addr) == SelectSeq(bus, LAMBDA x : x.kind = kind /\ x.addr = addr)

\* the bytes of a register group of a chip
Group(c, addr, len) == [i \in 1 .. len |-> c[addr + i - 1]]

Alarm1Regs(c) == Group(c, DS3231_ALARM_1_ADDRESS, GroupLen.alrm_1)
Alarm2Regs(c) == Group(c, DS3231_ALARM_2_ADDRESS, GroupLen.alrm_2)
CtrlBit(c, f) == RawGet(<<c[DS3231_CONTROL_ADDRESS]>>, "ctrl", f)
StatBit(c, f) == RawGet(<<c[DS3231_STATUS_ADDRESS]>>, "stat", f)

IsSlot2(a) == AndMask(a.alarm_type, DS3231_ALARM_TYPE_ALARM_NUMBER) # 0

\* C1: two consecutive set_sqw_mode calls with the same mode on a working bus:
\* the second call issues no control-register write and leaves the control
\* register as it was, and the first issued at most one control write
C1_SqwModeTwice ==
  (/\ call.op = "set_sqw_mode" /\ prev.op = "set_sqw_mode"
   /\ prev.arg = call.arg /\ prev.ok /\ TxOk)
  => /\ Len(TxAt("w", DS3231_CONTROL_ADDRESS)) = 0
     /\ chip[DS3231_CONTROL_ADDRESS] = pre.chip[DS3231_CONTROL_ADDRESS]
     /\ Len(prev.writes) <= 1

\* C2: set_alarm on one slot, on a working bus, leaves the other slot's alarm
\* register group and the other slot's interrupt-enable bit as they were
C2_SetAlarmOtherSlotKept ==
  (call.op = "set_alarm" /\ TxOk)
  => IF IsSlot2(call.arg)
       THEN /\ Alarm1Regs(chip) = Alarm1Regs(pre.chip)
            /\ CtrlBit(chip, "alrm_1_int") = CtrlBit(pre.chip, "alrm_1_int")
       ELSE /\ Alarm2Regs(chip) = Alarm2Regs(pre.chip)
            /\ CtrlBit(chip, "alrm_2_int") = CtrlBit(pre.chip, "alrm_2_int")

Flag(alarm_type, mask) == IF AndMask(alarm_type, mask) # 0 THEN 1 ELSE 0

\* C3: after set_alarm on slot 1 with in-range arguments on a working bus, the
\* chip's Alarm1 registers decode to the requested second, minute, hour, day,
\* M1..M4 and day-mode, and the alarm1-interrupt-enable bit is the requested one
C3_Alarm1Decodes ==
  (/\ call.op = "set_alarm" /\ ~IsSlot2(call.arg) /\ TxOk
   /\ call.arg.second \in 0 .. 59 /\ call.arg.minute \in 0 .. 59
   /\ call.arg.hour \in 0 .. 23 /\ call.arg.day \in 1 .. 31)
  => LET r == Alarm1Regs(chip)
         F(f) == RawGet(r, "alrm_1", f)
         a == call.arg
     IN /\ F("second") + 10 * F("second_10") = a.second
        /\ F("minute") + 10 * F("minute_10") = a.minute
        /\ F("hour") + 10 * F("hour_10") = a.hour
        /\ F("day") + 10 * F("day_10") = a.day
        /\ F("m1") = Flag(a.alarm_type, DS3231_ALARM_TYPE_M1)
        /\ F("m2") = Flag(a.alarm_type, DS3231_ALARM_TYPE_M2)
        /\ F("m3") = Flag(a.alarm_type, DS3231_ALARM_TYPE_M3)
        /\ F("m4") = Flag(a.alarm_type, DS3231_ALARM_TYPE_M4)
        /\ F("day_mode") = Flag(a.alarm_type, DS3231_ALARM_TYPE_DAY_MODE)
        /\ CtrlBit(chip, "alrm_1_int") = Flag(a.alarm_type, DS3231_ALARM_TYPE_INTERUPT)

\* the example of the specification: 08:15:30 on day 1, M2..M4, interrupt enabled,
\* written over different register contents with the enable bit switched on
C3_Witness ==
  /\ call.op = "set_alarm" /\ TxOk
  /\ call.arg = AlarmArg(78, 30, 15, 8, 1)
  /\ Alarm1Regs(chip) # Alarm1Regs(pre.chip)
  /\ CtrlBit(pre.chip, "alrm_1_int") = 0
  /\ CtrlBit(chip, "alrm_1_int") = 1

\* the status read of the last call succeeded and showed the oscillator stopped
StatusSaysStopped ==
  /\ Len(bus) >= 1 /\ bus[1].ok /\ bus[1].addr = DS3231_STATUS_ADDRESS
  /\ Bits(bus[1].data[1], 7, 1) = 1

\* C4: a read_time whose status read fails or shows the oscillator-stopped flag
\* does not synchronize the host clock and does not read the time registers
C4_OscStoppedGuard ==
  (call.op = "read_time" /\ (StatusSaysStopped \/ (Len(bus) >= 1 /\ ~bus[1].ok)))
  => /\ sync = << >>
     /\ host_epoch = pre.epoch
     /\ Len(TxAt("r", DS3231_RTC_ADDRESS)) = 0

C4_Witness ==
  /\ call.op = "read_time" /\ StatusSaysStopped
  /\ is_valid(DecodeRtc([rtc |-> Group(chip, DS3231_RTC_ADDRESS, GroupLen.rtc)]))

\* a calendar time with a field out of its range
OutOfRange(t) ==
  \/ t.month < 1 \/ t.month > 12
  \/ t.day_of_month < 1 \/ t.day_of_month > 31
  \/ t.hour > 23 \/ t.minute > 59 \/ t.second > 59

\* the time-register read of the last call: failed, or succeeded
RtcReadFailed == Len(bus) = 2 /\ bus[2].addr = DS3231_RTC_ADDRESS /\ ~bus[2].ok
RtcReadOk == Len(bus) = 2 /\ bus[2].addr = DS3231_RTC_ADDRESS /\ bus[2].ok

\* C5: a read_time whose time-register read fails, or whose time registers
\* decode to a time with an out-of-range field, does not synchronize the host
\* clock and leaves its reference as it was
C5_InvalidTimeGuard ==
  (/\ call.op = "read_time"
   /\ \/ RtcReadFailed
      \/ RtcReadOk /\ OutOfRange(DecodeRtc([rtc |-> bus[2].data])))
  => sync = << >> /\ host_epoch = pre.epoch

C5_Witness ==
  /\ call.op = "read_time" /\ RtcReadOk
  /\ DecodeRtc([rtc |-> bus[2].data]).month = 13

\* C6: write_time with an invalid host time issues no bus transaction and
\* leaves the chip and the register image as they were
C6_WriteTimeGuard ==
  (call.op = "write_time" /\ ~is_valid(call.arg))
  => bus = << >> /\ chip = pre.chip /\ ds3231_ = pre.img

C6_Witness ==
  /\ call.op = "write_time" /\ ~is_valid(call.arg)
  /\ StatBit(chip, "osc_stop") = 1

\* C7: write_time of a valid host time with year 2000..2099 followed by
\* read_time, both on a working bus: the time decoded is the time written,
\* field by field, and the host clock is synchronized to its epoch
C7_TimeRoundTrip ==
  (/\ call.op = "read_time" /\ prev.op = "write_time" /\ prev.ok /\ TxOk
   /\ prev.arg.second \in 0 .. 59 /\ prev.arg.minute \in 0 .. 59
   /\ prev.arg.hour \in 0 .. 23 /\ prev.arg.day_of_month \in 1 .. 31
   /\ prev.arg.month \in 1 .. 12 /\ prev.arg.year \in 2000 .. 2099)
  => /\ DecodeRtc(ds3231_) = prev.arg
     /\ sync = << recalc_timestamp_utc(prev.arg) >>
     /\ host_epoch = recalc_timestamp_utc(prev.arg)

C7_Witness ==
  /\ call.op = "read_time" /\ prev.op = "write_time" /\ prev.ok /\ TxOk
  /\ prev.arg = Time(59, 56, 11, 3, 29, 12, 2003)
  /\ StatBit(pre.chip, "osc_stop") = 0
  /\ sync # << >>

\* C8: every reset_alarm issues exactly one status-register write
C8_ResetAlwaysWrites ==
  call.op = "reset_alarm" => Len(TxAt("w", DS3231_STATUS_ADDRESS)) = 1

\* alarm 2 acknowledged when its flag was already clear
C8_Witness ==
  /\ call.op = "reset_alarm" /\ call.arg = ALARM_2 /\ TxOk
  /\ StatBit(pre.chip, "alrm_2_act") = 0
  /\ Len(TxAt("w", DS3231_STATUS_ADDRESS)) = 1

\* C9: a failed read in setup marks the component failed and is the last bus
\* transaction of setup, and the failed mark is never cleared
C9_SetupStopsOnFailure ==
  /\ call.op = "setup" =>
       \A k \in 1 .. Len(bus) : ~bus[k].ok => (failed /\ k = Len(bus))
  /\ pre.failed => failed

\* C10: read_time never changes the failed mark, and a cycle whose status read
\* succeeds with the oscillator running and whose time read succeeds with a
\* valid time synchronizes the host clock, whatever came before
C10_CyclesIndependent ==
  call.op = "read_time"
  => /\ failed = pre.failed
     /\ (/\ RtcReadOk /\ bus[1].ok /\ Bits(bus[1].data[1], 7, 1) = 0
         /\ ~OutOfRange(DecodeRtc([rtc |-> bus[2].data])))
        => /\ sync = << recalc_timestamp_utc(DecodeRtc([rtc |-> bus[2].data])) >>
           /\ host_epoch = sync[1]

\* a cycle abandoned on a bus failure, then a cycle that synchronizes
C10_Witness ==
  /\ call.op = "read_time" /\ prev.op = "read_time" /\ ~prev.ok
  /\ ~failed
  /\ sync # << >>


\* the component, chip and host clock as they were when the last call began
PreMachine ==
  [chip |-> pre.chip, img |-> pre.img, bus |-> << >>, sync |-> << >>,
   failed |-> pre.failed, epoch |-> pre.epoch, events |-> raised]

\* the bus outcomes the last call met
OksOf(log) ==
  [k \in 1 .. MaxTx.setup |-> IF k <= Len(log) THEN log[k].ok ELSE TRUE]

\* the values of the uint8_t seconds argument tried against the one passed
OtherSeconds == {0, 1, 59, 255}

\* C11: set_alarm on slot 2 called from the same state, on the same bus, with any
\* other seconds argument issues the same bus transactions with the same bytes
\* and ends in the same chip registers and the same register image
C11_Alarm2IgnoresSeconds ==
  (call.op = "set_alarm" /\ IsSlot2(call.arg))
  => \A s \in OtherSeconds :
       LET a == call.arg
           r == set_alarm(PreMachine, a.alarm_type, s, a.minute, a.hour, a.day,
                          OksOf(bus))
       IN r.bus = bus /\ r.chip = chip /\ r.img = ds3231_ /\ r.failed = failed

\* alarm 2 set with a nonzero seconds argument, the alarm bytes written
C11_Witness ==
  /\ call.op = "set_alarm" /\ IsSlot2(call.arg) /\ call.arg.second # 0
  /\ TxOk
  /\ Len(TxAt("w", DS3231_ALARM_1_ADDRESS)) = 1

\* C12: after set_sqw_mode on a working bus, from any control value: when the
\* mode is the alarm-interrupt mode the interrupt-select bit of the chip is set
\* (also when it was set before), and when the mode is a square-wave rate the
\* bit is clear and the 2-bit rate field holds that rate
C12_SqwModePostcondition ==
  (call.op = "set_sqw_mode" /\ TxOk)
  => IF call.arg = ALARM_INTERUPT
       THEN CtrlBit(chip, "int_ctrl") = 1
       ELSE /\ CtrlBit(chip, "int_ctrl") = 0
            /\ CtrlBit(chip, "rs") = call.arg

\* C13: after set_alarm on slot 2 with in-range arguments on a working bus, the
\* chip's Alarm2 registers (3 bytes at 0x0B) decode to the requested minute,
\* hour, day, M2..M4 and day-mode, the alarm2-interrupt-enable bit is the
\* requested one, and the alarm-2 read and write each address the Alarm2 group
C13_Alarm2Decodes ==
  (/\ call.op = "set_alarm" /\ IsSlot2(call.arg) /\ TxOk
   /\ call.arg.minute \in 0 .. 59
   /\ call.arg.hour \in 0 .. 23 /\ call.arg.day \in 1 .. 31)
  => LET r == Alarm2Regs(chip)
         F(f) == RawGet(r, "alrm_2", f)
         a == call.arg
     IN /\ F("minute") + 10 * F("minute_10") = a.minute
        /\ F("hour") + 10 * F("hour_10") = a.hour
        /\ F("day") + 10 * F("day_10") = a.day
        /\ F("m2") = Flag(a.alarm_type, DS3231_ALARM_TYPE_M2)
        /\ F("m3") = Flag(a.alarm_type, DS3231_ALARM_TYPE_M3)
        /\ F("m4") = Flag(a.alarm_type, DS3231_ALARM_TYPE_M4)
        /\ F("day_mode") = Flag(a.alarm_type, DS3231_ALARM_TYPE_DAY_MODE)
        /\ CtrlBit(chip, "alrm_2_int") = Flag(a.alarm_type, DS3231_ALARM_TYPE_INTERUPT)
        /\ Len(TxAt("r", DS3231_ALARM_2_ADDRESS)) = 1
        /\ Len(TxAt("w", DS3231_ALARM_2_ADDRESS)) = 1

\* the entry points that read a register group in order to write it back
Writers == {"write_time", "set_alarm", "set_sqw_mode", "reset_alarm"}

\* C14: in write_time, set_alarm, set_sqw_mode and reset_alarm, once the bus read
\* of a register group has failed the call issues no later bus write of that group
C14_NoWriteAfterFailedRead ==
  call.op \in Writers
  => \A j \in 1 .. Len(bus), k \in 1 .. Len(bus) :
       (j < k /\ bus[j].kind = "r" /\ ~bus[j].ok /\ bus[k].kind = "w")
       => bus[k].addr # bus[j].addr

---------------------------------------------------------------------------
(* SpecCtrl: after a setup on a working bus, set_alarm and set_sqw_mode on a   *)
(* bus that fails up to MaxCtrlFail times, from every control register content *)
(* of CtrlInits                                                                 *)

InitCtrl ==
  InitWith({ChipOf(ChipRtc(ValidTime), Alarm1Init, Alarm2Init, c, 0) :
              c \in CtrlInits},
           {0})

NextCtrl ==
  \/ Setup(AllOk)
  \/ /\ Ready(MaxCalls)
     /\ \E a \in AlarmArgs, oks \in Outcomes(MaxTx.set_alarm, MaxCtrlFail - nfail) :
          SetAlarm(a, oks)
  \/ /\ Ready(MaxCalls)
     /\ \E mode \in Modes, oks \in Outcomes(MaxTx.set_sqw_mode, MaxCtrlFail - nfail) :
          SetSqwMode(mode, oks)

SpecCtrl == InitCtrl /\ [][NextCtrl]_vars

\* the fields of the control register
CtrlFields == DOMAIN Layout.ctrl

\* the control fields the last call may change
MayChange ==
  IF call.op = "set_alarm"
    THEN IF IsSlot2(call.arg) THEN {"alrm_2_int"} ELSE {"alrm_1_int"}
    ELSE {"int_ctrl", "rs"}

\* C15: on a bus that may fail reads and writes, set_alarm on slot N changes at
\* most the alarm-N interrupt-enable bit of the chip's control register and
\* set_sqw_mode changes at most the interrupt-select bit and the rate field;
\* every other control bit keeps its value across the call
C15_ControlBitsKept ==
  call.op \in {"set_alarm", "set_sqw_mode"}
  => \A f \in CtrlFields \ MayChange : CtrlBit(chip, f) = CtrlBit(pre.chip, f)

\* the address of the alarm register group of the slot set_alarm is called on
TargetAddress(a) ==
  IF IsSlot2(a) THEN DS3231_ALARM_2_ADDRESS ELSE DS3231_ALARM_1_ADDRESS

\* the interrupt-enable field of the slot set_alarm is called on
TargetEnable(a) == IF IsSlot2(a) THEN "alrm_2_int" ELSE "alrm_1_int"

\* C16: set_alarm always issues one write of the targeted alarm register group;
\* it issues a control write only when the requested interrupt-enable flag
\* differs from the bit just read from the chip, and after the alarm write; on a
\* working bus a second set_alarm with the same arguments issues exactly one
\* alarm-group write and no control write
C16_AlarmWriteThenControl ==
  call.op = "set_alarm"
  => LET a == call.arg
         AW == TxAt("w", TargetAddress(a))
         CW == TxAt("w", DS3231_CONTROL_ADDRESS)
     IN /\ Len(AW) = 1
        /\ Len(CW) <= 1
        /\ (Len(CW) = 1 /\ bus[1].ok)
           => RawGet(bus[1].data, "ctrl", TargetEnable(a))
                # Flag(a.alarm_type, DS3231_ALARM_TYPE_INTERUPT)
        /\ Len(CW) = 1
           => WriteAddrs(bus) = <<TargetAddress(a), DS3231_CONTROL_ADDRESS>>
        /\ (prev.op = "set_alarm" /\ prev.arg = a /\ prev.ok /\ TxOk)
           => Len(AW) = 1 /\ Len(CW) = 0

\* C17: write_time of a valid host time on a working bus reads the status byte;
\* when it shows the oscillator-stopped flag, one status write carrying the byte
\* read with only that flag cleared precedes the single 7-byte write of the time
\* registers, and otherwise the time write is the only write; write_time never
\* writes an alarm group or the control register; afterwards the chip's
\* oscillator-stopped flag is clear, and a read_time that follows reads it clear
C17_WriteTimeRestartsOscillator ==
  /\ call.op = "write_time"
     => /\ \A k \in 1 .. Len(bus) :
             bus[k].kind = "w"
             => bus[k].addr \in {DS3231_STATUS_ADDRESS, DS3231_RTC_ADDRESS}
        /\ Alarm1Regs(chip) = Alarm1Regs(pre.chip)
        /\ Alarm2Regs(chip) = Alarm2Regs(pre.chip)
        /\ chip[DS3231_CONTROL_ADDRESS] = pre.chip[DS3231_CONTROL_ADDRESS]
  /\ (call.op = "write_time" /\ is_valid(call.arg) /\ TxOk)
     => /\ bus[1].kind = "r" /\ bus[1].addr = DS3231_STATUS_ADDRESS
        /\ IF RawGet(bus[1].data, "stat", "osc_stop") = 1
             THEN /\ WriteAddrs(bus) = <<DS3231_STATUS_ADDRESS, DS3231_RTC_ADDRESS>>
                  /\ bus[2].kind = "w"
                  /\ bus[2].data = <<WithBits(bus[1].data[1], 7, 1, 0)>>
                  /\ bus[3].len = GroupLen.rtc
             ELSE /\ WriteAddrs(bus) = <<DS3231_RTC_ADDRESS>>
                  /\ bus[2].len = GroupLen.rtc
        /\ StatBit(chip, "osc_stop") = 0
  /\ (/\ call.op = "read_time" /\ prev.op = "write_time" /\ prev.ok
      /\ Len(prev.writes) > 0 /\ Len(bus) > 0 /\ bus[1].ok)
     => RawGet(bus[1].data, "stat", "osc_stop") = 0

\* a valid time written to a chip whose oscillator had stopped and whose 32kHz
\* output is enabled: the status write carries the enable bit alone
C17_Witness ==
  /\ call.op = "write_time" /\ is_valid(call.arg) /\ TxOk
  /\ StatBit(pre.chip, "osc_stop") = 1 /\ StatBit(pre.chip, "en32khz") = 1
  /\ Len(bus) = 3 /\ bus[2].data = <<8>>
  /\ StatBit(chip, "osc_stop") = 0 /\ StatBit(chip, "en32khz") = 1

\* the active flag of the alarm reset_alarm is called on
ActiveFlag(alarm_number) ==
  IF alarm_number = ALARM_1 THEN "alrm_1_act" ELSE "alrm_2_act"

\* C18: after reset_alarm(N) with its status read and write succeeding, the
\* chip's active flag of alarm N is clear, the status byte written is the byte
\* read with only that flag cleared, and the time registers, both alarm register
\* groups and the control register are as they were
C18_ResetAlarmFrame ==
  (call.op = "reset_alarm" /\ TxOk)
  => LET f == ActiveFlag(call.arg) IN
     /\ StatBit(chip, f) = 0
     /\ Len(bus) = 2
     /\ bus[1].kind = "r" /\ bus[1].addr = DS3231_STATUS_ADDRESS
     /\ bus[2].kind = "w" /\ bus[2].addr = DS3231_STATUS_ADDRESS
     /\ bus[2].data = <<WithBits(bus[1].data[1], Layout.stat[f][2], 1, 0)>>
     /\ \A o \in DOMAIN Layout.stat \ {f} : StatBit(chip, o) = StatBit(pre.chip, o)
     /\ \A a \in Addr : a # DS3231_STATUS_ADDRESS => chip[a] = pre.chip[a]

\* alarm 1 acknowledged while both alarms had fired and both interrupts are
\* enabled: alarm 2 stays flagged and both stay armed
C18_Witness ==
  /\ call.op = "reset_alarm" /\ call.arg = ALARM_1 /\ TxOk
  /\ StatBit(pre.chip, "alrm_1_act") = 1 /\ StatBit(pre.chip, "alrm_2_act") = 1
  /\ StatBit(chip, "alrm_1_act") = 0 /\ StatBit(chip, "alrm_2_act") = 1
  /\ bus[2].data = <<2>>
  /\ CtrlBit(chip, "alrm_1_int") = 1 /\ CtrlBit(chip, "alrm_2_int") = 1

---------------------------------------------------------------------------
(* SpecChip: reset_alarm and write_time on a working bus while the chip raises *)
(* alarm flags by itself, after any bus transaction of the call                *)

InitChip ==
  InitWith({ChipOf(ChipRtc(ValidTime), Alarm1Init, Alarm2Init, 28, s) :
              s \in StatInits},
           {0})

NextChip ==
  \/ Setup(AllOk)
  \/ /\ Ready(MaxChipCalls)
     /\ \E n \in {ALARM_1, ALARM_2},
           ev \in Events(MaxTx.reset_alarm, MaxRaise) :
          ResetAlarmAsync(n, ev, AllOk)
  \/ /\ Ready(MaxChipCalls)
     /\ \E now \in HostTimes,
           ev \in Events(MaxTx.write_time, MaxRaise) :
          WriteTimeAsync(now, ev, AllOk)

SpecChip == InitChip /\ [][NextChip]_vars

\* the alarm flag was set on the chip at some moment of the last call
WasActive(f) ==
  \/ StatBit(pre.chip, f) = 1
  \/ \E k \in 1 .. Len(bus) : f \in raised[k]

\* C19: with the chip raising alarm flags by itself, reset_alarm(N) never clears
\* the chip's active flag of the other alarm, also when the chip raises it
\* between the status read and the status write of the call, and write_time
\* never clears an alarm active flag
C19_NoAlarmEventLost ==
  /\ call.op = "reset_alarm"
     => \A f \in AlarmFlags \ {ActiveFlag(call.arg)} :
          WasActive(f) => StatBit(chip, f) = 1
  /\ call.op = "write_time"
     => \A f \in AlarmFlags : WasActive(f) => StatBit(chip, f) = 1

====
